---- MODULE Spec2Model ----
(***************************************************************************)
(* A model of the clef JSON-RPC client: the facade operations of           *)
(* ClefClient, the HTTP transport and the IPC (unix socket) transport.     *)
(*                                                                         *)
(* Bytes on a connection are modelled as a sequence of lexical units       *)
(* ("tokens"): an opening brace, one unit per object member, a closing     *)
(* brace, a newline, or a unit that is no JSON at all.  A read from the    *)
(* socket may return any non-empty prefix of the units that are available. *)
(***************************************************************************)
EXTENDS Integers, Sequences, FiniteSets, TLC

\* ---------------------------------------------------------------- bounds
MaxCalls == 2      \* facade invocations in one behaviour
MaxAhead == 1      \* envelopes the remote may write beyond the requests it got
MaxJunk  == 1      \* non-JSON units the remote may write

Callers == {1, 2}
Serial  == {1}     \* the callers of a behaviour whose calls do not overlap

\* ------------------------------------------------------------ JSON values
JNull      == [t |-> "null"]
JStr(s)    == [t |-> "string", s |-> s]
JNum(n)    == [t |-> "number", n |-> n]
JArr(a)    == [t |-> "array", a |-> a]
JObj(m)    == [t |-> "object", m |-> m]
RawAbsent  == [t |-> "absent"]      \* an empty json.RawMessage

\* ------------------------------------------------------------------ bytes
LB         == [b |-> "{"]
RB         == [b |-> "}"]
NL         == [b |-> "nl"]
Junk       == [b |-> "junk"]
Mem(k, v)  == [b |-> "member", k |-> k, v |-> v]

\* -------------------------------------------------------------- Go values
GoString(s) == [g |-> "string", s |-> s]
GoSlice(a)  == [g |-> "slice", isnil |-> FALSE, a |-> a]
GoNilSlice  == [g |-> "slice", isnil |-> TRUE, a |-> <<>>]
GoPtr(x)    == [g |-> "ptr", isnil |-> FALSE, to |-> x]
GoNilPtr    == [g |-> "ptr", isnil |-> TRUE]
GoNil       == [g |-> "nil"]        \* the nil interface value

\* ----------------------------------------------------------------- errors
\* An error value as a caller can observe it: its dynamic type, its text and,
\* for the package-level sentinels, which sentinel it is.
NoErr               == [type |-> "nil", msg |-> "", sentinel |-> ""]
ErrorsNew(m)        == [type |-> "*errors.errorString", msg |-> m, sentinel |-> ""]
IoEOF               == [type |-> "*errors.errorString", msg |-> "EOF", sentinel |-> "io.EOF"]
IoErrUnexpectedEOF  == [type |-> "*errors.errorString", msg |-> "unexpected EOF",
                        sentinel |-> "io.ErrUnexpectedEOF"]
SyntaxError(m)      == [type |-> "*json.SyntaxError", msg |-> m, sentinel |-> ""]
UnmarshalTypeError(v, target) ==
    [type |-> "*json.UnmarshalTypeError",
     msg |-> "json: cannot unmarshal " \o v \o " into " \o target, sentinel |-> ""]
MarshalerError      == [type |-> "*json.MarshalerError",
                        msg |-> "json: error calling MarshalJSON for type json.RawMessage",
                        sentinel |-> ""]
OpError(m)          == [type |-> "*net.OpError", msg |-> m, sentinel |-> ""]
UrlError            == [type |-> "*url.Error", msg |-> "Post: connection refused",
                        sentinel |-> ""]

Max(S) == CHOOSE x \in S : \A y \in S : y <= x
Min(S) == CHOOSE x \in S : \A y \in S : x <= y

\* ------------------------------------------------- request and param types
Ops == {"NewAccount", "ListAccounts", "SignTransaction", "SignData",
        "SignTypedData", "EcRecover", "Version"}


\* MethodOf with the name of ListAccounts copied from NewAccount.
MethodOfCopied(op) ==
    CASE op = "NewAccount"      -> "account_new"
      [] op = "ListAccounts"    -> "account_new"
      [] op = "SignTransaction" -> "account_signTransaction"
      [] op = "SignData"        -> "account_signData"
      [] op = "SignTypedData"   -> "account_signTypedData"
      [] op = "EcRecover"       -> "account_ecRecover"
      [] op = "Version"         -> "account_version"

\* The method name each facade operation hands to transport.call.
MethodOf(op) ==
    CASE op = "NewAccount"      -> "account_new"
      [] op = "ListAccounts"    -> "account_list"
      [] op = "SignTransaction" -> "account_signTransaction"
      [] op = "SignData"        -> "account_signData"
      [] op = "SignTypedData"   -> "account_signTypedData"
      [] op = "EcRecover"       -> "account_ecRecover"
      [] op = "Version"         -> "account_version"

\* Struct tags of the request types: JSON name, Go field, omitempty.
Fld(j, g, o) == [j |-> j, g |-> g, omitempty |-> o]
TransactionFields ==
    << Fld("from", "From", FALSE), Fld("to", "To", FALSE), Fld("gas", "Gas", TRUE),
       Fld("gasPrice", "GasPrice", TRUE), Fld("value", "Value", TRUE),
       Fld("nonce", "Nonce", TRUE), Fld("data", "Data", TRUE) >>
SignDataRequestFields ==
    << Fld("address", "Address", FALSE), Fld("data", "Data", FALSE) >>
EcRecoverRequestFields ==
    << Fld("data", "Data", FALSE), Fld("sig", "Signature", FALSE) >>

\* encoding/json on a struct of string fields: a field tagged omitempty is left
\* out when it holds the empty string.
EncodeStruct(fields, x) ==
    LET kept == {i \in 1..Len(fields) : ~fields[i].omitempty \/ x[fields[i].g] # ""}
        idx(k) == CHOOSE i \in kept : fields[i].j = k
    IN  JObj([k \in {fields[i].j : i \in kept} |-> JStr(x[fields[idx(k)].g])])

\* TypedDataRequest: TypedData is a json.RawMessage, written as it is when it is
\* valid JSON; RawVersion is omitempty.
EncodeTypedDataRequest(x) ==
    LET base == [k \in {"address", "data"} |->
                    IF k = "address" THEN JStr(x.Address) ELSE x.TypedData.json]
    IN  IF x.RawVersion = "" THEN JObj(base)
        ELSE JObj([k \in {"address", "data", "raw_version"} |->
                    IF k = "raw_version" THEN JStr(x.RawVersion) ELSE base[k]])

\* The params member: [err, json].  A nil interface is written as null.
EncodeParams(p) ==
    IF p.g = "nil" \/ p.isnil THEN [err |-> NoErr, json |-> JNull]
    ELSE CASE p.to.ty = "Transaction" ->
                [err |-> NoErr, json |-> EncodeStruct(TransactionFields, p.to)]
           [] p.to.ty = "SignDataRequest" ->
                [err |-> NoErr, json |-> EncodeStruct(SignDataRequestFields, p.to)]
           [] p.to.ty = "EcRecoverRequest" ->
                [err |-> NoErr, json |-> EncodeStruct(EcRecoverRequestFields, p.to)]
           [] p.to.ty = "TypedDataRequest" ->
                IF p.to.TypedData.valid
                THEN [err |-> NoErr, json |-> EncodeTypedDataRequest(p.to)]
                ELSE [err |-> MarshalerError, json |-> JNull]

rpcRequest(method, params) ==
    [Jsonrpc |-> "2.0", Method |-> method, Params |-> params, ID |-> 1]

\* httpRequest with another protocol version.
httpRequestV1(method, params) ==
    [Jsonrpc |-> "1.0", Method |-> method, Params |-> params, ID |-> 1]

\* The request envelope httpTransport.call builds.
httpRequest(method, params) ==
    [Jsonrpc |-> "2.0", Method |-> method, Params |-> params, ID |-> 1]

\* ipcRequest with an id that differs between the requests of different methods.
ipcRequestNumbered(method, params) ==
    [Jsonrpc |-> "2.0", Method |-> method, Params |-> params,
     ID |-> IF method = "account_new" THEN 1 ELSE 2]

\* The request envelope ipcTransport.call builds.
ipcRequest(method, params) ==
    [Jsonrpc |-> "2.0", Method |-> method, Params |-> params, ID |-> 1]

\* json.Marshal(rpcRequest{...}): every member is written, none is omitempty.
Marshal(req) ==
    LET p == EncodeParams(req.Params)
    IN  IF p.err # NoErr THEN [err |-> p.err, bytes |-> <<>>]
        ELSE [err |-> NoErr,
              bytes |-> << LB, Mem("jsonrpc", JStr(req.Jsonrpc)),
                           Mem("method", JStr(req.Method)),
                           Mem("params", p.json), Mem("id", JNum(req.ID)), RB >>]


\* Frame with the newline left out.
FrameNoNewline(reqBody) == reqBody

\* append(reqBody, '\n')
Frame(reqBody) == Append(reqBody, NL)

\* The arguments a caller passes to each operation.
Addr1 == "0x0000000000000000000000000000000000000001"
Addr2 == "0x0000000000000000000000000000000000000002"
Tx(data) == GoPtr([ty |-> "Transaction", From |-> Addr1, To |-> Addr2, Gas |-> "0x5208",
                   GasPrice |-> "", Value |-> "0xde0b6b3a7640000", Nonce |-> "0x0",
                   Data |-> data])
TypedReq(valid, ver) ==
    GoPtr([ty |-> "TypedDataRequest", Address |-> Addr1,
           TypedData |-> [valid |-> valid, json |-> JObj([k \in {"primaryType"} |-> JStr("Person")])],
           RawVersion |-> ver])
ArgsOf(op) ==
    CASE op = "SignTransaction" -> {Tx("0x"), Tx("")}
      [] op = "SignData" ->
            {GoPtr([ty |-> "SignDataRequest", Address |-> Addr1, Data |-> "0x48656c6c6f"])}
      [] op = "SignTypedData" -> {TypedReq(TRUE, "V4"), TypedReq(FALSE, "")}
      [] op = "EcRecover" ->
            {GoPtr([ty |-> "EcRecoverRequest", Data |-> "0x48656c6c6f", Signature |-> "0x4f35"])}
      [] OTHER -> {GoNil}

\* ------------------------------------------------------ response decoding
\* The scanner of json.Decoder over the units buffered so far: leading
\* newlines are skipped, a value starts with an opening brace and is complete
\* at its closing brace; anything else where a value or a member is expected
\* is a syntax error; otherwise more input is needed.
Scan(buf) ==
    LET nonsp == {i \in 1..Len(buf) : buf[i].b # "nl"}
    IN  IF nonsp = {} THEN [st |-> "more", from |-> 0, to |-> 0]
        ELSE LET i0   == Min(nonsp)
                 stop == {j \in (i0 + 1)..Len(buf) : buf[j].b \notin {"member", "nl"}}
             IN  IF buf[i0].b # "{" THEN [st |-> "error", from |-> i0, to |-> i0]
                 ELSE IF stop = {} THEN [st |-> "more", from |-> i0, to |-> 0]
                 ELSE IF buf[Min(stop)].b = "}"
                      THEN [st |-> "value", from |-> i0, to |-> Min(stop)]
                      ELSE [st |-> "error", from |-> i0, to |-> Min(stop)]

IsMember(u) == u.b = "member"
MembersOf(buf, sc) == SelectSeq(SubSeq(buf, sc.from + 1, sc.to - 1), IsMember)

\* The value of the last member named k, or RawAbsent.
Lookup(ms, k) ==
    LET idx == {i \in 1..Len(ms) : ms[i].k = k}
    IN  IF idx = {} THEN RawAbsent ELSE ms[Max(idx)].v

\* Decoding a JSON value into a Go string field or variable: null leaves the
\* zero value, a string is stored, anything else is a type error.
StringInto(v) ==
    CASE v.t = "absent" -> [ok |-> TRUE, s |-> ""]
      [] v.t = "null"   -> [ok |-> TRUE, s |-> ""]
      [] v.t = "string" -> [ok |-> TRUE, s |-> v.s]
      [] OTHER          -> [ok |-> FALSE, s |-> ""]

Field(obj, k) == IF k \in DOMAIN obj THEN obj[k] ELSE RawAbsent

\* rpcError{Code int, Message string} from the error member.
rpcError(v) ==
    [Code    |-> IF Field(v.m, "code").t = "number" THEN Field(v.m, "code").n ELSE 0,
     Message |-> StringInto(Field(v.m, "message")).s]

\* The first member of the envelope whose value does not fit its field of
\* rpcResponse (0 when all fit): jsonrpc string, error *rpcError, id int.
\* result is a json.RawMessage and takes any value.
BadMember(ms) ==
    LET fits(u) ==
            CASE u.k = "jsonrpc" -> u.v.t \in {"string", "null"}
              [] u.k = "id"      -> u.v.t \in {"number", "null"}
              [] u.k = "error"   ->
                    \/ u.v.t = "null"
                    \/ /\ u.v.t = "object"
                       /\ Field(u.v.m, "code").t \in {"number", "null", "absent"}
                       /\ StringInto(Field(u.v.m, "message")).ok
              [] OTHER -> TRUE
        bad == {i \in 1..Len(ms) : ~fits(ms[i])}
    IN  IF bad = {} THEN 0 ELSE Min(bad)

\* json.NewDecoder(r).Decode(&rpcResp) on one complete value: [err, resp].
DecodeEnvelope(ms) ==
    LET e    == Lookup(ms, "error")
        resp == [Result |-> Lookup(ms, "result"),
                 Error  |-> IF e.t = "object" THEN [isnil |-> FALSE, to |-> rpcError(e)]
                            ELSE [isnil |-> TRUE, to |-> [Code |-> 0, Message |-> ""]]]
        b    == BadMember(ms)
    IN  IF b = 0 THEN [err |-> NoErr, resp |-> resp]
        ELSE [err  |-> UnmarshalTypeError(ms[b].v.t, "Go struct field rpcResponse." \o ms[b].k),
              resp |-> resp]


\* ErrorOf with the code put in front of the message.
ErrorOfWithCode(rpcResp) == ErrorsNew("rpc error: " \o rpcResp.Error.to.Message)

\* The error call returns for a populated error record.
ErrorOf(rpcResp) == ErrorsNew(rpcResp.Error.to.Message)


\* AfterDecode with the error record looked at only when there is no result.
AfterDecodeResultFirst(d) ==
    IF d.err # NoErr THEN [err |-> d.err, isnil |-> TRUE, resp |-> d.resp, kind |-> "transport"]
    ELSE IF ~d.resp.Error.isnil /\ d.resp.Result.t = "absent"
         THEN [err |-> ErrorsNew(d.resp.Error.to.Message), isnil |-> TRUE, resp |-> d.resp,
               kind |-> "protocol"]
         ELSE [err |-> NoErr, isnil |-> FALSE, resp |-> d.resp, kind |-> "none"]

\* What call does with a decoded envelope: [err, resp, kind].
AfterDecode(d) ==
    IF d.err # NoErr THEN [err |-> d.err, isnil |-> TRUE, resp |-> d.resp, kind |-> "transport"]
    ELSE IF ~d.resp.Error.isnil
         THEN [err |-> ErrorOf(d.resp), isnil |-> TRUE, resp |-> d.resp, kind |-> "protocol"]
         ELSE [err |-> NoErr, isnil |-> FALSE, resp |-> d.resp, kind |-> "none"]

\* ------------------------------------------------- result types (facade)
VersionResponseFields  == << Fld("version", "Version", FALSE) >>
SignDataResponseFields == << Fld("signature", "Signature", FALSE) >>
EcRecoverResponseFields == << Fld("address", "Address", FALSE) >>
SignTxTxFields ==
    << Fld("nonce", "Nonce", FALSE), Fld("gasPrice", "GasPrice", FALSE),
       Fld("gas", "Gas", FALSE), Fld("to", "To", FALSE), Fld("value", "Value", FALSE),
       Fld("input", "Input", FALSE), Fld("v", "V", FALSE), Fld("r", "R", FALSE),
       Fld("s", "S", FALSE), Fld("hash", "Hash", FALSE) >>

GoNames(fields) == {fields[i].g : i \in 1..Len(fields)}
JsonNameOf(fields, g) == fields[CHOOSE i \in 1..Len(fields) : fields[i].g = g].j

\* A struct of string fields filled from a JSON object: members the object
\* lacks leave the field empty, members the struct lacks are ignored.
StructFrom(fields, m) ==
    [g \in GoNames(fields) |-> StringInto(Field(m, JsonNameOf(fields, g))).s]
StructFits(fields, m) ==
    \A g \in GoNames(fields) : StringInto(Field(m, JsonNameOf(fields, g))).ok
ZeroStruct(fields) == [g \in GoNames(fields) |-> ""]

\* json.Unmarshal(data, &v) for v a struct of string fields: [err, val].
UnmarshalStruct(raw, fields, name) ==
    CASE raw.t = "null"   -> [err |-> NoErr, val |-> ZeroStruct(fields)]
      [] raw.t = "object" ->
            IF StructFits(fields, raw.m)
            THEN [err |-> NoErr, val |-> StructFrom(fields, raw.m)]
            ELSE [err |-> UnmarshalTypeError("value", "Go struct field " \o name),
                  val |-> StructFrom(fields, raw.m)]
      [] OTHER -> [err |-> UnmarshalTypeError(raw.t, "Go value of type clefclient." \o name),
                   val |-> ZeroStruct(fields)]

\* json.Unmarshal(data, &result) for result a SignTxResponse.
UnmarshalSignTx(raw) ==
    LET zero == [Raw |-> "", Tx |-> ZeroStruct(SignTxTxFields)]
    IN  CASE raw.t = "null"   -> [err |-> NoErr, val |-> zero]
          [] raw.t = "object" ->
                LET r  == StringInto(Field(raw.m, "raw"))
                    tx == Field(raw.m, "tx")
                    t  == IF tx.t = "absent" THEN [err |-> NoErr, val |-> ZeroStruct(SignTxTxFields)]
                          ELSE UnmarshalStruct(tx, SignTxTxFields, "SignTxResponse.tx")
                    v  == [Raw |-> r.s, Tx |-> t.val]
                IN  IF ~r.ok
                    THEN [err |-> UnmarshalTypeError("value", "Go struct field SignTxResponse.raw"),
                          val |-> v]
                    ELSE [err |-> t.err, val |-> v]
          [] OTHER -> [err |-> UnmarshalTypeError(raw.t, "Go value of type clefclient.SignTxResponse"),
                       val |-> zero]

\* json.Unmarshal(data, &address) for address a string.
UnmarshalString(raw) ==
    IF StringInto(raw).ok THEN [err |-> NoErr, val |-> StringInto(raw).s]
    ELSE [err |-> UnmarshalTypeError(raw.t, "Go value of type string"), val |-> ""]

\* json.Unmarshal(data, &accounts) for accounts a []string: null leaves the nil
\* slice, an array gives a slice of its length.
UnmarshalStrings(raw) ==
    CASE raw.t = "null"  -> [err |-> NoErr, val |-> GoNilSlice]
      [] raw.t = "array" ->
            LET a == [i \in 1..Len(raw.a) |-> StringInto(raw.a[i]).s]
            IN  IF \A i \in 1..Len(raw.a) : StringInto(raw.a[i]).ok
                THEN [err |-> NoErr, val |-> GoSlice(a)]
                ELSE [err |-> UnmarshalTypeError("value", "Go value of type string"),
                      val |-> GoSlice(a)]
      [] OTHER -> [err |-> UnmarshalTypeError(raw.t, "Go value of type []string"),
                   val |-> GoNilSlice]

\* json.Unmarshal(resp.Result, &v) in each facade operation: [err, val], val
\* being what the operation returns when err is nil.  Empty input is a syntax
\* error.
Unmarshal(raw, op) ==
    IF raw.t = "absent"
    THEN [err |-> SyntaxError("unexpected end of JSON input"), val |-> GoNil]
    ELSE CASE op = "NewAccount" ->
                LET u == UnmarshalString(raw) IN [err |-> u.err, val |-> GoString(u.val)]
           [] op = "ListAccounts" -> UnmarshalStrings(raw)
           [] op = "SignTransaction" ->
                LET u == UnmarshalSignTx(raw) IN [err |-> u.err, val |-> GoPtr(u.val)]
           [] op \in {"SignData", "SignTypedData"} ->
                LET u == UnmarshalStruct(raw, SignDataResponseFields, "SignDataResponse")
                IN  [err |-> u.err, val |-> GoPtr(u.val)]
           [] op = "EcRecover" ->
                LET u == UnmarshalStruct(raw, EcRecoverResponseFields, "EcRecoverResponse")
                IN  [err |-> u.err, val |-> GoPtr(u.val)]
           [] op = "Version" ->
                LET u == UnmarshalStruct(raw, VersionResponseFields, "VersionResponse")
                IN  [err |-> u.err, val |-> GoPtr(u.val)]

\* The value an operation returns next to a non-nil error.
ZeroResult(op) ==
    CASE op = "NewAccount"   -> GoString("")
      [] op = "ListAccounts" -> GoNilSlice
      [] OTHER               -> GoNilPtr


\* Facade with the decoded value dropped on the way out.
FacadeDropsValue(op, r) ==
    IF r.err # NoErr THEN [err |-> r.err, val |-> ZeroResult(op), kind |-> r.kind]
    ELSE LET u == Unmarshal(r.resp.Result, op)
         IN  IF u.err # NoErr
             THEN [err |-> u.err, val |-> ZeroResult(op), kind |-> "decode"]
             ELSE [err |-> NoErr, val |-> ZeroResult(op), kind |-> "none"]

\* The body of every facade operation after transport.call has returned
\* r = [err, isnil, resp, kind]: [err, val, kind].
Facade(op, r) ==
    IF r.err # NoErr THEN [err |-> r.err, val |-> ZeroResult(op), kind |-> r.kind]
    ELSE LET u == Unmarshal(r.resp.Result, op)
         IN  IF u.err # NoErr
             THEN [err |-> u.err, val |-> ZeroResult(op), kind |-> "decode"]
             ELSE [err |-> NoErr, val |-> u.val, kind |-> "none"]

\* --------------------------------------------------------- the remote side
\* What the remote may put in an envelope.  The remote is not part of the
\* client; it is given every kind of answer the client has code for.
Obj1(k, v) == JObj([x \in {k} |-> v])
TxPayload ==
    JObj([k \in {"raw", "tx"} |->
            IF k = "raw" THEN JStr("0xd46e8dd6")
            ELSE JObj([f \in {"nonce", "gasPrice", "gas", "to", "value", "input",
                              "v", "r", "s", "hash"} |-> JStr("0x" \o f)])])
GoodPayloads ==
    { JStr(Addr1), JArr(<< JStr(Addr1), JStr(Addr2) >>), Obj1("version", JStr("6.1.0")),
      Obj1("signature", JStr("0x4f35")), Obj1("address", JStr(Addr1)), TxPayload }
OddPayloads ==
    { JNull, JNum(5), JObj([x \in {} |-> JNull]), Obj1("version", JNum(6)),
      JArr(<< JNum(5) >>) }
ErrRec(code, msg) ==
    JObj([k \in {"code", "message"} |-> IF k = "code" THEN JNum(code) ELSE JStr(msg)])
ErrRecs == { ErrRec(-32000, "unknown account"), ErrRec(-32000, "EOF"),
             ErrRec(-32603, "malformed chunked encoding"), JObj([x \in {} |-> JNull]) }

\* The members of the envelopes the remote writes (the braces are added when
\* it writes them).
Envelopes ==
    {<< Mem("result", p), Mem("error", JNull) >> : p \in GoodPayloads \cup OddPayloads}
    \cup {<< Mem("jsonrpc", JStr("2.0")), Mem("id", JNum(1)) >>}
    \cup {<< Mem("error", e) >> : e \in ErrRecs}
    \cup {<< Mem("result", JStr(Addr1)), Mem("error", ErrRec(-32000, "unknown account")) >>}
    \cup {<< Mem("result", JStr(Addr1)), Mem("id", JStr("x")) >>,
          << Mem("error", JStr("boom")) >>}

\* The bytes of envelope number k: json.NewEncoder(conn).Encode(resp) ends
\* them with a newline.  seq does not exist on the wire; it records which
\* envelope of the connection the bytes belong to.
EnvelopeBytes(ms, k) == << [b |-> "{", seq |-> k] >> \o ms \o << RB, NL >>

\* ------------------------------------------------------------------ state
VARIABLES
    transport,      \* "http" or "ipc": the transport the client was built with
    closed,         \* the IPC connection has been closed by close()
    remoteClosed,   \* the remote has closed its end of the IPC connection
    out,            \* IPC: bytes written by the client, not yet read by the remote
    outTag,         \* for each frame in out: the invocation that wrote it
    inb,            \* IPC: bytes written by the remote, not yet read by the client
    nwritten,       \* envelopes the remote has written to the connection
    njunk,          \* non-JSON units the remote has written to the connection
    nwrites,        \* successful conn.Write calls of the client
    nrecv,          \* requests the remote has received
    lastRecv,       \* the last request the remote received
    ninv,           \* facade invocations so far
    nresp,          \* complete JSON values the IPC client has decoded so far
    pc,             \* per caller: "idle", "reading" (inside call), "done"
    op,             \* per caller: the operation invoked
    closeCalled,    \* Close() has been called on the client
    afterClose,     \* per caller: the operation was invoked after Close()
    buf,            \* per caller: the buffer of the json.Decoder of its call
    got,            \* per caller: the envelope its call decoded
    ret,            \* per caller: what transport.call returned, [err, isnil]
    res,            \* per caller: what the operation returned, [err, val]
    kind,           \* per caller: where the error arose
    client,         \* "unbuilt", "nil" (the constructor failed) or "held"
    ctorErr,        \* the error the constructor returned
    dials,          \* net.Dial calls made so far
    conn,           \* the connection the IPC transport holds: the dial that made it, 0 if none
    served          \* the callers whose requests the remote has received, in order

vars == << transport, closed, remoteClosed, out, outTag, inb, nwritten, njunk, nwrites,
           nrecv, lastRecv, ninv, nresp, pc, op, closeCalled, afterClose, buf, got, ret,
           res, kind, client, ctorErr, dials, conn, served >>

NoRecv == [inv |-> 0, op |-> "", args |-> GoNil, body |-> <<>>]
NoGot  == [has |-> FALSE, ms |-> <<>>, seq |-> 0, ord |-> 0]
NoRet  == [err |-> NoErr, isnil |-> TRUE]

Init ==
    /\ transport = "none"
    /\ client = "unbuilt" /\ ctorErr = NoErr /\ dials = 0 /\ conn = 0
    /\ served = <<>>
    /\ closed = FALSE /\ remoteClosed = FALSE
    /\ out = <<>> /\ outTag = <<>> /\ inb = <<>>
    /\ nwritten = 0 /\ njunk = 0 /\ nwrites = 0 /\ nrecv = 0 /\ lastRecv = NoRecv
    /\ ninv = 0 /\ nresp = 0
    /\ pc = [c \in Callers |-> "idle"]
    /\ op = [c \in Callers |-> ""]
    /\ closeCalled = FALSE
    /\ afterClose = [c \in Callers |-> FALSE]
    /\ buf = [c \in Callers |-> <<>>]
    /\ got = [c \in Callers |-> NoGot]
    /\ ret = [c \in Callers |-> NoRet]
    /\ res = [c \in Callers |-> [err |-> NoErr, val |-> GoNil]]
    /\ kind = [c \in Callers |-> "none"]

\* ---------------------------------------------------------------- actions
NilResp == [Result |-> RawAbsent, Error |-> [isnil |-> TRUE, to |-> [Code |-> 0, Message |-> ""]]]
Failed(e) == [err |-> e, isnil |-> TRUE, resp |-> NilResp, kind |-> "transport"]

\* fmt.Errorf(prefix + "%w", e): an error whose text is the prefix followed by
\* the text of e and which unwraps to e.
Errorf(prefix, e) ==
    [type |-> "*fmt.wrapError", msg |-> << prefix, e.msg >>, sentinel |-> "", wraps |-> e]

\* newIPCTransport: one net.Dial, which succeeds or not.
newIPCTransport(ok) ==
    IF ok THEN [isnil |-> FALSE, err |-> NoErr]
    ELSE [isnil |-> TRUE, err |-> OpError("dial unix: connect")]

\* A constructor that hands out a client also when the dial failed.
NewIPCClientReturnAlways(t) ==
    [isnil |-> FALSE,
     err |-> IF t.err # NoErr THEN Errorf("failed to create IPC transport: ", t.err)
             ELSE NoErr]

\* What NewIPCClient returns for the result t of newIPCTransport.
NewIPCClientReturn(t) ==
    IF t.err # NoErr
    THEN [isnil |-> TRUE, err |-> Errorf("failed to create IPC transport: ", t.err)]
    ELSE [isnil |-> FALSE, err |-> NoErr]

\* NewIPCClient(socketPath), with its call of newIPCTransport.
NewIPCClient(ok) ==
    /\ client = "unbuilt"
    /\ dials' = dials + 1
    /\ LET r == NewIPCClientReturn(newIPCTransport(ok))
       IN  /\ client' = IF r.isnil THEN "nil" ELSE "held"
           /\ ctorErr' = r.err
           /\ transport' = IF r.isnil THEN transport ELSE "ipc"
    /\ conn' = IF ok THEN dials + 1 ELSE 0
    /\ UNCHANGED << served, closed, remoteClosed, out, outTag, inb,
                    nwritten, njunk, nwrites, nrecv, lastRecv, ninv, nresp, pc, op,
                    closeCalled, afterClose, buf, got, ret, res, kind >>

\* NewHTTPClient(endpoint): no connection is made.
NewHTTPClient ==
    /\ client = "unbuilt"
    /\ client' = "held" /\ transport' = "http"
    /\ UNCHANGED << ctorErr, dials, conn, served, closed,
                    remoteClosed, out, outTag, inb, nwritten, njunk, nwrites, nrecv,
                    lastRecv, ninv, nresp, pc, op, closeCalled, afterClose, buf, got, ret,
                    res, kind >>

\* The first invocation of a behaviour is any operation and the first envelope
\* of a connection any envelope; later ones are drawn from smaller sets.
LaterOps == {"NewAccount", "SignTransaction"}
OpsAt(k) == IF k = 1 THEN Ops ELSE LaterOps
ArgsAt(k, o) == IF k > 1 /\ o = "SignTransaction" THEN {Tx("0x")} ELSE ArgsOf(o)
LaterEnvelopes ==
    {<< Mem("result", JStr(Addr2)), Mem("error", JNull) >>,
     << Mem("error", ErrRec(-32000, "unknown account")) >>}
EnvelopesAt(k) == IF k = 1 THEN Envelopes ELSE LaterEnvelopes

Pending == [err |-> NoErr, val |-> GoNil]

\* transport.call has returned r to operation o of caller c, which decodes the
\* result and returns.
Return(c, o, r, g) ==
    LET f == Facade(o, r)
    IN  /\ pc'   = [pc EXCEPT ![c] = "done"]
        /\ res'  = [res EXCEPT ![c] = [err |-> f.err, val |-> f.val]]
        /\ kind' = [kind EXCEPT ![c] = f.kind]
        /\ got'  = [got EXCEPT ![c] = g]
        /\ ret'  = [ret EXCEPT ![c] = [err |-> r.err, isnil |-> r.isnil]]
        /\ buf'  = [buf EXCEPT ![c] = <<>>]

\* Decode on input that has ended: [err, isnil, resp, kind] and the envelope.
DecodeAtEOF(b) ==
    LET sc == Scan(b)
    IN  CASE sc.st = "value" -> AfterDecode(DecodeEnvelope(MembersOf(b, sc)))
          [] sc.st = "error" -> Failed(SyntaxError("invalid character"))
          [] OTHER -> IF sc.from = 0 THEN Failed(IoEOF) ELSE Failed(IoErrUnexpectedEOF)
GotOf(b, k) ==
    LET sc == Scan(b)
    IN  IF sc.st = "value"
        THEN [has |-> TRUE, ms |-> MembersOf(b, sc), seq |-> b[sc.from].seq, ord |-> k]
        ELSE NoGot

\* The bodies an HTTP server may answer with: an envelope, bytes that are no
\* JSON, nothing, or an envelope cut short.
HTTPBodies ==
    {EnvelopeBytes(ms, 0) : ms \in Envelopes}
    \cup {<< Junk >>, <<>>, << [b |-> "{", seq |-> 0], Mem("result", JStr(Addr1)) >>}

\* The error the reader of a chunked response body returns for a chunk that
\* does not end as it must; json.Decoder hands a reader's error on as it is.
BodyReadError == ErrorsNew("malformed chunked encoding")

\* A facade operation o(p) on the HTTP transport: httpTransport.call and the
\* decoding of its result, one blocking round trip.
httpCall(c, o, p) ==
    /\ transport = "http"
    /\ pc[c] \in {"idle", "done"} /\ o \in OpsAt(ninv + 1) /\ p \in ArgsAt(ninv + 1, o)
    /\ ninv < MaxCalls
    /\ ninv' = ninv + 1
    /\ op' = [op EXCEPT ![c] = o]
    /\ afterClose' = [afterClose EXCEPT ![c] = closeCalled]
    /\ LET m == Marshal(httpRequest(MethodOf(o), p))
       IN  IF m.err # NoErr
           THEN /\ Return(c, o, Failed(m.err), NoGot)
                /\ UNCHANGED << nrecv, lastRecv >>
           ELSE \/ /\ Return(c, o, Failed(UrlError), NoGot)       \* http.Post fails
                   /\ UNCHANGED << nrecv, lastRecv >>
                \/ \E body \in HTTPBodies :
                     /\ nrecv' = nrecv + 1
                     /\ lastRecv' = [inv |-> ninv + 1, op |-> o, args |-> p, body |-> m.bytes]
                     /\ Return(c, o, DecodeAtEOF(body), GotOf(body, 0))
                \/ /\ nrecv' = nrecv + 1                         \* resp.Body.Read fails
                   /\ lastRecv' = [inv |-> ninv + 1, op |-> o, args |-> p, body |-> m.bytes]
                   /\ Return(c, o, Failed(BodyReadError), NoGot)
    /\ UNCHANGED << client, ctorErr, dials, conn, served,
                    transport, closed, remoteClosed, out, outTag, inb, nwritten, njunk,
                    nwrites, nresp, closeCalled >>

\* callCloses that closes the connection when the response cannot be decoded.
callClosesOnFailure(r) == r.kind = "transport"

\* Whether ipcTransport.call closes the connection when it returns r: it has
\* no conn.Close() on any of its return paths.
callCloses(r) == FALSE

\* conn.Write fails on a connection closed at either end.
WriteFails == closed \/ remoteClosed

\* A facade operation o(p) on the IPC transport, up to the write of the
\* request: ipcTransport.call marshals, appends the newline and writes.
ipcCall(c, o, p) ==
    /\ transport = "ipc"
    /\ pc[c] \in {"idle", "done"} /\ o \in OpsAt(ninv + 1) /\ p \in ArgsAt(ninv + 1, o)
    /\ ninv < MaxCalls
    /\ ninv' = ninv + 1
    /\ op' = [op EXCEPT ![c] = o]
    /\ afterClose' = [afterClose EXCEPT ![c] = closeCalled]
    /\ LET m == Marshal(ipcRequest(MethodOf(o), p))
       IN  IF m.err # NoErr
           THEN /\ Return(c, o, Failed(m.err), NoGot)
                /\ closed' = (closed \/ callCloses(Failed(m.err)))
                /\ UNCHANGED << out, outTag, nwrites >>
           ELSE IF WriteFails
           THEN /\ Return(c, o, Failed(OpError("write")), NoGot)
                /\ closed' = (closed \/ callCloses(Failed(OpError("write"))))
                /\ UNCHANGED << out, outTag, nwrites >>
           ELSE /\ out' = out \o Frame(m.bytes)
                /\ outTag' = Append(outTag, [inv |-> ninv + 1, op |-> o, args |-> p,
                                             caller |-> c])
                /\ nwrites' = nwrites + 1
                /\ closed' = closed
                /\ pc' = [pc EXCEPT ![c] = "reading"]
                /\ buf' = [buf EXCEPT ![c] = <<>>]
                /\ got' = [got EXCEPT ![c] = NoGot]
                /\ ret' = [ret EXCEPT ![c] = NoRet]
                /\ res' = [res EXCEPT ![c] = Pending]
                /\ kind' = [kind EXCEPT ![c] = "none"]
    /\ UNCHANGED << client, ctorErr, dials, conn, served,
                    transport, remoteClosed, inb, nwritten, njunk, nrecv,
                    lastRecv, nresp, closeCalled >>

\* The bytes a decoder has read beyond the value it returned.  The decoder is
\* local to the call, so they are gone when the call returns.
Unread(b, sc) == SubSeq(b, sc.to + 1, Len(b))

\* ipcTransport.call returns r from its read of the response.
ipcReturn(c, r, g) ==
    /\ Return(c, op[c], r, g)
    /\ closed' = (closed \/ callCloses(r))

\* json.NewDecoder(t.conn).Decode(&rpcResp): one Read of the connection into
\* the decoder's buffer, which returns whatever part of the available bytes
\* the kernel hands over; Decode returns once the buffer holds a complete
\* value or a syntax error, and the operation returns with it.
ipcCallDecode(c) ==
    /\ transport = "ipc"
    /\ pc[c] = "reading"
    /\ \/ /\ ~closed /\ inb # <<>>
          /\ \E n \in 1..Len(inb) :
               LET b  == buf[c] \o SubSeq(inb, 1, n)
                   sc == Scan(b)
               IN  /\ inb' = SubSeq(inb, n + 1, Len(inb))
                   /\ CASE sc.st = "more" ->
                             /\ buf' = [buf EXCEPT ![c] = b]
                             /\ UNCHANGED << pc, res, kind, got, ret, nresp, closed >>
                        [] sc.st = "value" ->
                             /\ nresp' = nresp + 1
                             /\ ipcReturn(c, DecodeAtEOF(SubSeq(b, 1, sc.to)),
                                          GotOf(b, nresp + 1))
                        [] OTHER ->
                             /\ ipcReturn(c, Failed(SyntaxError("invalid character")), NoGot)
                             /\ UNCHANGED nresp
       \/ /\ ~closed /\ inb = <<>> /\ remoteClosed
          /\ ipcReturn(c, DecodeAtEOF(buf[c]), NoGot)
          /\ UNCHANGED << inb, nresp >>
       \/ /\ closed                          \* closed by another caller: Read fails
          /\ ipcReturn(c, Failed(OpError("read")), NoGot)
          /\ UNCHANGED << inb, nresp >>
    /\ UNCHANGED << client, ctorErr, dials, conn, served, transport,
                    remoteClosed, out, outTag, nwritten, njunk, nwrites, nrecv, lastRecv,
                    ninv, op, closeCalled, afterClose >>


\* close that releases nothing on either transport.
closeNothing(t) == FALSE

\* What close() does to the connection of a transport: the IPC transport
\* closes it, the HTTP transport has none.
close(t) == t = "ipc"

\* ClefClient.Close
Close(c) ==
    /\ client = "held"
    /\ pc[c] \in {"idle", "done"}
    /\ closed' = (closed \/ close(transport))
    /\ closeCalled' = TRUE
    /\ UNCHANGED << client, ctorErr, dials, conn, served,
                    transport, remoteClosed, out, outTag, inb, nwritten, njunk, nwrites,
                    nrecv, lastRecv, ninv, nresp, pc, op, afterClose, buf, got, ret, res,
                    kind >>

\* The remote reads one request from the connection.
RemoteReceive ==
    /\ transport = "ipc"
    /\ \E k \in 1..Len(out) :
         /\ out[k].b = "}"
         /\ \A j \in 1..(k - 1) : out[j].b # "}"
         /\ LET e == IF k < Len(out) /\ out[k + 1].b = "nl" THEN k + 1 ELSE k
            IN  out' = SubSeq(out, e + 1, Len(out))
         /\ lastRecv' = [inv |-> Head(outTag).inv, op |-> Head(outTag).op,
                         args |-> Head(outTag).args, body |-> SubSeq(out, 1, k)]
    /\ served' = Append(served, Head(outTag).caller)
    /\ outTag' = Tail(outTag)
    /\ nrecv' = nrecv + 1
    /\ UNCHANGED << client, ctorErr, dials, conn,
                    transport, closed, remoteClosed, inb, nwritten, njunk, nwrites, ninv,
                    nresp, pc, op, closeCalled, afterClose, buf, got, ret,
                    res, kind >>

\* The remote writes an envelope to the connection.
RemoteWrite(ms) ==
    /\ transport = "ipc" /\ ~closed /\ ~remoteClosed
    /\ nwritten < nrecv + MaxAhead
    /\ ms \in EnvelopesAt(nwritten + 1)
    /\ nwritten' = nwritten + 1
    /\ inb' = inb \o EnvelopeBytes(ms, nwritten + 1)
    /\ UNCHANGED << client, ctorErr, dials, conn, served,
                    transport, closed, remoteClosed, out, outTag, njunk, nwrites, nrecv,
                    lastRecv, ninv, nresp, pc, op, closeCalled, afterClose, buf, got, ret,
                    res, kind >>

\* The remote writes bytes that are no JSON.
RemoteWriteJunk ==
    /\ transport = "ipc" /\ ~closed /\ ~remoteClosed
    /\ njunk < MaxJunk
    /\ njunk' = njunk + 1
    /\ inb' = Append(inb, Junk)
    /\ UNCHANGED << client, ctorErr, dials, conn, served,
                    transport, closed, remoteClosed, out, outTag, nwritten, nwrites, nrecv,
                    lastRecv, ninv, nresp, pc, op, closeCalled, afterClose, buf, got, ret,
                    res, kind >>

\* The remote closes its end of the connection.
RemoteClose ==
    /\ transport = "ipc" /\ ~closed /\ ~remoteClosed
    /\ remoteClosed' = TRUE
    /\ UNCHANGED << client, ctorErr, dials, conn, served,
                    transport, closed, out, outTag, inb, nwritten, njunk, nwrites, nrecv,
                    lastRecv, ninv, nresp, pc, op, closeCalled, afterClose, buf, got, ret,
                    res, kind >>

Next ==
    \/ NewHTTPClient
    \/ \E ok \in BOOLEAN : NewIPCClient(ok)
    \/ \E c \in Serial, o \in Ops : \E p \in ArgsOf(o) : httpCall(c, o, p)
    \/ \E c \in Serial, o \in Ops : \E p \in ArgsOf(o) : ipcCall(c, o, p)
    \/ \E c \in Serial : ipcCallDecode(c)
    \/ \E c \in Serial : Close(c)
    \/ RemoteReceive
    \/ \E ms \in Envelopes : RemoteWrite(ms)
    \/ RemoteWriteJunk
    \/ RemoteClose

Spec == Init /\ [][Next]_vars

\* Two callers share one IPC client and nothing serialises them: each is in
\* its own call, and their writes and reads of the one connection interleave.
ConcEnvelopes ==
    LaterEnvelopes \cup {<< Mem("result", JStr(Addr1)), Mem("error", JNull) >>}

\* The remote answers the oldest request it has received and not yet
\* answered: envelope k of the connection is its response to request k.
RemoteAnswer(ms) ==
    /\ nwritten < nrecv
    /\ RemoteWrite(ms)

NextConc ==
    \/ \E ok \in BOOLEAN : NewIPCClient(ok)
    \/ \E c \in Callers, o \in LaterOps : \E p \in ArgsOf(o) : ipcCall(c, o, p)
    \/ \E c \in Callers : ipcCallDecode(c)
    \/ \E c \in Callers : Close(c)
    \/ RemoteReceive
    \/ \E ms \in ConcEnvelopes : RemoteAnswer(ms)

SpecConc == Init /\ [][NextConc]_vars

\* ================================================================= claims
Done(c)       == pc[c] = "done"
ErrMember(c)  == Lookup(got[c].ms, "error")
Payload(c)    == Lookup(got[c].ms, "result")
\* The call of caller c decoded a well-formed envelope without an error record.
SuccessEnvelope(c) ==
    Done(c) /\ got[c].has /\ BadMember(got[c].ms) = 0 /\ ErrMember(c).t \in {"absent", "null"}

AllStrings(m, names) == \A k \in names : k \in DOMAIN m /\ m[k].t = "string"
JsonNames(fields) == {fields[i].j : i \in 1..Len(fields)}
ResultFieldsOf(o) ==
    CASE o \in {"SignData", "SignTypedData"} -> SignDataResponseFields
      [] o = "EcRecover" -> EcRecoverResponseFields
      [] o = "Version"   -> VersionResponseFields

\* A payload of the shape operation o expects.
HasShape(o, p) ==
    CASE o = "NewAccount"   -> p.t = "string"
      [] o = "ListAccounts" -> p.t = "array" /\ \A i \in 1..Len(p.a) : p.a[i].t = "string"
      [] o = "SignTransaction" ->
            /\ p.t = "object" /\ AllStrings(p.m, {"raw"})
            /\ "tx" \in DOMAIN p.m /\ p.m["tx"].t = "object"
            /\ AllStrings(p.m["tx"].m, JsonNames(SignTxTxFields))
      [] OTHER -> p.t = "object" /\ AllStrings(p.m, JsonNames(ResultFieldsOf(o)))

\* The typed form of a payload that has the shape of operation o.
TypedForm(o, p) ==
    CASE o = "NewAccount"   -> GoString(p.s)
      [] o = "ListAccounts" -> GoSlice([i \in 1..Len(p.a) |-> p.a[i].s])
      [] o = "SignTransaction" ->
            GoPtr([Raw |-> p.m["raw"].s,
                   Tx  |-> [g \in GoNames(SignTxTxFields) |->
                              p.m["tx"].m[JsonNameOf(SignTxTxFields, g)].s]])
      [] OTHER -> GoPtr([g \in GoNames(ResultFieldsOf(o)) |->
                              p.m[JsonNameOf(ResultFieldsOf(o), g)].s])

\* C1: on either transport, an operation whose call decoded a well-formed
\* envelope with no error record and a result payload of the operation's shape
\* returns no error and the typed form of that payload.
C1_SuccessReturnsTypedPayload ==
    \A c \in Callers :
        SuccessEnvelope(c) /\ HasShape(op[c], Payload(c))
            => res[c] = [err |-> NoErr, val |-> TypedForm(op[c], Payload(c))]
C1_Witness ==
    /\ transport = "ipc" /\ SuccessEnvelope(1) /\ op[1] = "SignTransaction"
    /\ HasShape(op[1], Payload(1)) /\ res[1].val.to.Tx.Hash = "0xhash"

\* C2: when the envelope a call decoded carries a non-null error record, call
\* returns an error and no response, and the operation returns an error and its
\* zero result, also when the envelope carries a result payload.
C2_ErrorRecordFails ==
    \A c \in Callers :
        Done(c) /\ got[c].has /\ ErrMember(c).t \notin {"absent", "null"}
            => /\ ret[c].err # NoErr /\ ret[c].isnil
               /\ res[c].err # NoErr /\ res[c].val = ZeroResult(op[c])
C2_Witness ==
    /\ Done(1) /\ got[1].has /\ ErrMember(1).t = "object"
    /\ Payload(1) = JStr(Addr1) /\ op[1] = "NewAccount" /\ transport = "ipc"

\* C3: when the envelope carries an error record with a message, the error the
\* operation returns has exactly that message as its text.
C3_ErrorCarriesRemoteMessage ==
    \A c \in Callers :
        /\ Done(c) /\ got[c].has /\ BadMember(got[c].ms) = 0
        /\ ErrMember(c).t = "object" /\ AllStrings(ErrMember(c).m, {"message"})
        => res[c].err.msg = ErrMember(c).m["message"].s
C3_Witness ==
    /\ Done(1) /\ got[1].has /\ ErrMember(1) = ErrRec(-32000, "unknown account")
    /\ res[1].err.msg = "unknown account" /\ transport = "http"

\* C4: an operation invoked on an IPC client after Close() has returned an
\* error and its zero result; it is never left waiting for a response.
C4_CallAfterCloseFails ==
    \A c \in Callers :
        transport = "ipc" /\ afterClose[c]
            => Done(c) /\ res[c].err # NoErr /\ res[c].val = ZeroResult(op[c])
C4_Witness ==
    /\ transport = "ipc" /\ afterClose[1] /\ ninv = 2 /\ nresp = 1
    /\ res[1].err.type = "*net.OpError"

\* C5: on the IPC transport the k-th call that decodes a response returns the
\* k-th envelope the remote wrote to the connection (no byte that is no JSON
\* having been written).
C5_KthCallReadsKthEnvelope ==
    \A c \in Callers :
        transport = "ipc" /\ njunk = 0 /\ Done(c) /\ got[c].has => got[c].seq = got[c].ord

\* The fixed method name of each operation.
C6_Method(o) ==
    CASE o = "NewAccount"      -> "account_new"
      [] o = "ListAccounts"    -> "account_list"
      [] o = "SignTransaction" -> "account_signTransaction"
      [] o = "SignData"        -> "account_signData"
      [] o = "SignTypedData"   -> "account_signTypedData"
      [] o = "EcRecover"       -> "account_ecRecover"
      [] o = "Version"         -> "account_version"
ReqMembers(r) == SelectSeq(r.body, IsMember)

\* C6: each request the remote receives comes from a later invocation than the
\* one before it (so the remote gets at most one request per invocation, in
\* invocation order), and its method is the fixed name of that invocation's
\* operation.
C6_OneRequestPerInvocationInOrder ==
    [][nrecv' # nrecv =>
          /\ nrecv' = nrecv + 1
          /\ lastRecv.inv < lastRecv'.inv /\ lastRecv'.inv <= ninv'
          /\ Lookup(ReqMembers(lastRecv'), "method") = JStr(C6_Method(lastRecv'.op))]_vars
C6_Witness ==
    /\ nrecv = 2 /\ ninv = 2 /\ lastRecv.inv = 2 /\ lastRecv.op = "SignTransaction"
    /\ transport = "ipc" /\ Done(1) /\ res[1].err # NoErr

\* C7: the request of a no-argument operation has no params member, that of
\* every other operation has a record as params.
C7_NoArgParamsOmitted ==
    nrecv > 0 =>
        IF lastRecv.op \in {"NewAccount", "ListAccounts", "Version"}
        THEN Lookup(ReqMembers(lastRecv), "params").t = "absent"
        ELSE Lookup(ReqMembers(lastRecv), "params").t = "object"

\* C8: an operation whose call decoded a success envelope with a result payload
\* that has not the operation's shape fails with a decode error and returns
\* its zero result.
C8_WrongShapeIsDecodeError ==
    \A c \in Callers :
        SuccessEnvelope(c) /\ ~HasShape(op[c], Payload(c))
            => kind[c] = "decode" /\ res[c].err # NoErr /\ res[c].val = ZeroResult(op[c])

\* The errors operations return for a populated error record, over the
\* envelopes of the model.
ProtocolErrors ==
    {AfterDecode(DecodeEnvelope(ms)).err :
        ms \in {e \in Envelopes : AfterDecode(DecodeEnvelope(e)).kind = "protocol"}}

\* C9: no transport failure and no decode failure returns an error value that
\* a populated error record also produces.
C9_KindsDistinguishable ==
    \A c \in Callers :
        Done(c) /\ kind[c] \in {"transport", "decode"} => res[c].err \notin ProtocolErrors

\* The units from position i of out are one request envelope and a newline.
IsRequestAt(i) ==
    /\ i + 6 <= Len(out)
    /\ \A j \in 1..4 : out[i + j].b = "member"
    /\ << out[i + 1].k, out[i + 2].k, out[i + 3].k, out[i + 4].k >>
            = << "jsonrpc", "method", "params", "id" >>
    /\ out[i + 5].b = "}" /\ out[i + 6].b = "nl"

\* C10: the bytes the IPC transport has written and the remote has not yet
\* read are whole frames, one per successful write: each is the encoding of
\* one request envelope followed by exactly one newline.
C10_OneNewlinePerRequest ==
    transport = "ipc" =>
        /\ Len(out) = 7 * (nwrites - nrecv)
        /\ \A i \in 1..Len(out) :
              /\ (i % 7 = 1) => out[i].b = "{" /\ IsRequestAt(i)
              /\ out[i].b = "nl" <=> i % 7 = 0
C10_Witness == transport = "ipc" /\ Len(out) = 14 /\ nwrites = 2

\* C11: NewIPCClient dials exactly once.  When the dial fails it returns no
\* client and an error that wraps the dial's error, and nothing is invoked on
\* a connection; when it succeeds the client holds the connection of that one
\* dial, and in every later state, whatever operations have run, still no
\* other dial has been made and the client holds that same connection.
C11_OneDialAtConstruction ==
    /\ client = "unbuilt" => dials = 0 /\ conn = 0
    /\ client = "nil" =>
          /\ dials = 1 /\ conn = 0 /\ ninv = 0
          /\ ctorErr.type = "*fmt.wrapError" /\ ctorErr.wraps = newIPCTransport(FALSE).err
          /\ ctorErr.msg = << "failed to create IPC transport: ", ctorErr.wraps.msg >>
    /\ client = "held" /\ transport = "ipc" =>
          dials = 1 /\ conn = 1 /\ ctorErr = NoErr
C11_Witness ==
    /\ client = "held" /\ transport = "ipc" /\ dials = 1 /\ conn = 1
    /\ ninv = 2 /\ Done(1) /\ remoteClosed /\ res[1].err.type = "*net.OpError"

\* The request envelope the transport the client was not built with builds.
C12_OtherRequest(method, params) ==
    IF transport = "ipc" THEN httpRequest(method, params) ELSE ipcRequest(method, params)

C13_NothingPairsResponses ==
    /\ \A i \in 1..Len(out) :
          out[i].b = "member" /\ out[i].k = "id" => out[i].v = JNum(1)
    /\ nrecv > 0 => Lookup(ReqMembers(lastRecv), "id") = JNum(1)
    /\ \A c \in Callers :
          Done(c) /\ got[c].has =>
              LET r == AfterDecode(DecodeEnvelope(got[c].ms))
              IN  ret[c] = [err |-> r.err, isnil |-> r.isnil]
C13_Witness ==
    \E c \in Callers :
        /\ Done(c) /\ got[c].has /\ ret[c].err = NoErr /\ res[c].err = NoErr
        /\ served[got[c].seq] # c
        /\ pc[3 - c] = "reading"

\* A step of a call: an operation is invoked, or a caller inside call reads or
\* returns.
C14_CallStep == ninv' # ninv \/ pc' # pc \/ buf' # buf

\* The last call of caller c wrote its request and then failed in Decode.
C14_ReadFailed(c) ==
    /\ Done(c) /\ kind[c] = "transport"
    /\ ret[c].err.type \notin {"*net.OpError", "*json.MarshalerError"}

\* C14: no step of a call on the IPC transport, whatever its outcome, changes
\* which connection the transport holds, whether it is closed, or the number
\* of dials; the connection goes from open to closed only in a step of Close();
\* and an operation invoked after an earlier call failed while reading, on a
\* connection neither end has closed, still writes its request to it.
C14_CallKeepsConnection ==
    [][/\ C14_CallStep => closed' = closed /\ conn' = conn /\ dials' = dials
       /\ (closed' /\ ~closed) => closeCalled' /\ ~C14_CallStep
       /\ (/\ transport = "ipc" /\ ninv' # ninv /\ ~closed /\ ~remoteClosed
           /\ \E c \in Callers : C14_ReadFailed(c))
             => nwrites' = nwrites + 1 /\ Len(out') = Len(out) + 7]_vars

\* Two calls have written; the first returned without having decoded a value,
\* the second has decoded the only value decoded so far and returned it.
C14_Witness ==
    /\ transport = "ipc" /\ ~closed /\ ~remoteClosed /\ conn = 1 /\ dials = 1
    /\ ninv = 2 /\ nwrites = 2 /\ nresp = 1
    /\ Done(1) /\ got[1].has /\ got[1].ord = 1 /\ ret[1].err = NoErr

====
